---- MODULE Spec2Model ----
(***************************************************************************)
(* State-machine model of the Tauri command handlers of                    *)
(* src/gui/src-tauri/src/lib.rs: get_available_voices,                     *)
(* convert_text_to_speech, open_file_path, open_folder_path and            *)
(* select_output_folder.                                                   *)
(*                                                                         *)
(* One invocation runs at a time (the handlers share no state).  Every     *)
(* step that talks to the outside world (an HTTP request, reading a        *)
(* response body, a file write, a process spawn, a stat of a path, a read  *)
(* of an environment variable) draws its outcome from a small set and is   *)
(* appended to `log`, the trace of effects of the current invocation.      *)
(* Rust Strings are TLA+ strings, format! is \o, Option<T> is a sequence   *)
(* of length 0 or 1, Result<T, E> is a record [tag, val].                  *)
(***************************************************************************)
EXTENDS Integers, Sequences, FiniteSets, TLC

VARIABLES
    os,       \* target_os the crate was compiled for
    home,     \* outcome of std::env::var("HOME"): None or Some(value)
    pc,       \* position of the running invocation: "idle", a step, "done"
    handler,  \* the command being served
    args,     \* the arguments of the invocation
    loc,      \* its local variables
    log,      \* the effects it has performed so far, in order
    result    \* the value it returned (NoResult until it returns)

vars == <<os, home, pc, handler, args, loc, log, result>>

(***************************** bounds **************************************)

\* longest stdout a spawned dialog prints, in characters
MaxStdoutLen == 3

(************************* Option and Result *******************************)

None == <<>>

Some(x) == <<x>>

IsSome(o) == Len(o) = 1

Unwrap(o) == o[1]

Ok(v) == [tag |-> "Ok", val |-> v]

Err(m) == [tag |-> "Err", val |-> m]

NoResult == [tag |-> "none", val |-> ""]

Unit == "()"

(***************************** effects *************************************)

\* an HTTP request: sent = FALSE when send() returned Err, else its status
NetEv(method, url, sent, status) ==
    [kind |-> "net", cmd |-> method, arg |-> <<url>>, ok |-> sent,
     code |-> status, data |-> ""]

\* reading a response body with json(), text() or bytes()
BodyEv(how, okay) ==
    [kind |-> "body", cmd |-> how, arg |-> <<>>, ok |-> okay,
     code |-> 0, data |-> ""]

\* std::fs::write(path, bytes)
WriteEv(path, bytes, okay) ==
    [kind |-> "write", cmd |-> "fs::write", arg |-> <<path>>, ok |-> okay,
     code |-> 0, data |-> bytes]

\* Command::new(cmd).args(argv).output(): spawned = FALSE when output()
\* returned Err (the executable could not be started), else the exit code
\* and what the process printed
SpawnEv(cmd, argv, spawned, exit, stdout) ==
    [kind |-> "spawn", cmd |-> cmd, arg |-> argv, ok |-> spawned,
     code |-> exit, data |-> stdout]

\* Path::exists / Path::is_file on path: kind is what the file system holds
StatEv(path, kind) ==
    [kind |-> "stat", cmd |-> "stat", arg |-> <<path>>, ok |-> kind # "missing",
     code |-> 0, data |-> kind]

(************************ the HTTP environment *****************************)

API_BASE_URL == "http://127.0.0.1:8000"

\* status codes the server may answer with
Statuses == {200, 204, 404, 500}

\* reqwest::StatusCode::is_success
IsSuccess(status) == status >= 200 /\ status <= 299

\* what send() can produce: "send_err" or a response with a status
SendOutcomes == {[sent |-> FALSE, status |-> 0]} \cup
                {[sent |-> TRUE, status |-> s] : s \in Statuses}

\* Display text of the errors the libraries report
NetErrors == {"connection refused"}

ParseErrors == {"expected value at line 1 column 1"}

IoErrors == {"Permission denied (os error 13)"}

StatusText(s) ==
    CASE s = 200 -> "200 OK"
      [] s = 204 -> "204 No Content"
      [] s = 404 -> "404 Not Found"
      [] s = 500 -> "500 Internal Server Error"

(************************ get_available_voices *****************************)

LanguageCodes == {"en-US", "de-DE", ""}

\* struct Voice
Voice(name, language_code, ssml_gender, display_name) ==
    [name |-> name, language_code |-> language_code,
     ssml_gender |-> ssml_gender, display_name |-> display_name]

\* voice lists a well-formed VoicesResponse may carry
ServerVoiceLists ==
    {<<>>,
     <<Voice("en-US-Wavenet-A", "en-US", "MALE", None)>>,
     <<Voice("de-DE-Chirp3-HD-Kore", "de-DE", "FEMALE", Some("Kore (HD)")),
       Voice("de-DE-Standard-B", "de-DE", "MALE", None)>>}

\* the table of the branch taken on a non-success status
chirp_voices_status ==
    <<"Charon", "Kore", "Zephyr", "Achernar", "Pulcherrima", "Leda",
      "Aoede", "Callirrhoe", "Despina", "Enceladus", "Puck", "Umbriel">>

female_status_mut ==
    {"Charon", "Kore", "Leda", "Aoede", "Callirrhoe", "Pulcherrima"}

female_status ==
    {"Charon", "Kore", "Leda", "Aoede", "Callirrhoe", "Pulcherrima", "Despina"}

FallbackOnStatus(language_code) ==
    [i \in 1..Len(chirp_voices_status) |->
        LET voice_name == chirp_voices_status[i]
            gender == IF voice_name \in female_status THEN "FEMALE" ELSE "MALE"
        IN  Voice(language_code \o "-Chirp3-HD-" \o voice_name,
                  language_code, gender, Some(voice_name \o " (HD)"))]

\* the table of the branch taken when send() fails
chirp_voices_neterr ==
    <<"Charon", "Kore", "Zephyr", "Achernar", "Pulcherrima", "Leda",
      "Aoede", "Callirrhoe", "Despina", "Enceladus", "Puck", "Umbriel">>

female_neterr ==
    {"Charon", "Kore", "Leda", "Aoede", "Callirrhoe", "Pulcherrima", "Despina"}

FallbackOnSendErr(language_code) ==
    [i \in 1..Len(chirp_voices_neterr) |->
        LET voice_name == chirp_voices_neterr[i]
            gender == IF voice_name \in female_neterr THEN "FEMALE" ELSE "MALE"
        IN  Voice(language_code \o "-Chirp3-HD-" \o voice_name,
                  language_code, gender, Some(voice_name \o " (HD)"))]

GV_SendErrResult_mut(language_code, e) ==
    Err("Failed to fetch voices: " \o e)

\* the Err(e) arm of the match on send()
GV_SendErrResult(language_code, e) == Ok(FallbackOnSendErr(language_code))

\* the else arm of status().is_success()
GV_StatusResult(language_code) == Ok(FallbackOnStatus(language_code))

GV_Call ==
    /\ pc \in {"idle", "done"}
    /\ \E language_code \in LanguageCodes :
          args' = [language_code |-> language_code]
    /\ handler' = "get_available_voices"
    /\ pc' = "gv_send"
    /\ loc' = [step |-> 0]
    /\ log' = <<>>
    /\ result' = NoResult
    /\ UNCHANGED <<os, home>>

\* client.get(&url).send().await and the match on it
GV_Send ==
    /\ pc = "gv_send"
    /\ \E o \in SendOutcomes, e \in NetErrors :
          LET url == API_BASE_URL \o "/voices/" \o args.language_code
          IN  /\ log' = Append(log, NetEv("GET", url, o.sent, o.status))
              /\ IF ~o.sent
                 THEN /\ result' = GV_SendErrResult(args.language_code, e)
                      /\ pc' = "done"
                 ELSE IF IsSuccess(o.status)
                 THEN /\ result' = result
                      /\ pc' = "gv_json"
                 ELSE /\ result' = GV_StatusResult(args.language_code)
                      /\ pc' = "done"
    /\ UNCHANGED <<os, home, handler, args, loc>>

\* response.json::<VoicesResponse>().await
GV_Json ==
    /\ pc = "gv_json"
    /\ \/ \E voices \in ServerVoiceLists :
             /\ log' = Append(log, BodyEv("json", TRUE))
             /\ result' = Ok(voices)
       \/ \E e \in ParseErrors :
             /\ log' = Append(log, BodyEv("json", FALSE))
             /\ result' = Err("Failed to parse voices response: " \o e)
    /\ pc' = "done"
    /\ UNCHANGED <<os, home, handler, args, loc>>

(*********************** convert_text_to_speech ****************************)

\* struct ConversionResult
ConversionResult(success, output_path, error, file_size, processing_time, download_url) ==
    [success |-> success, output_path |-> output_path, error |-> error,
     file_size |-> file_size, processing_time |-> processing_time,
     download_url |-> download_url]

\* bodies of a success-status POST /synthesize answer that parse as a
\* ConversionResult: every Option field may be present or missing
ServerResults ==
    {ConversionResult(s, op, er, fs, pt, du) :
        s \in BOOLEAN,
        op \in {None, Some("/srv/output/speech.mp3")},
        er \in {None, Some("quota exceeded")},
        fs \in {None, Some("12.5 KB")},
        pt \in {None, Some("1.2s")},
        du \in {None, Some("/download/speech.mp3")}}

\* paths the front end may ask the audio to be written to
OutputPaths == {"/home/u/out.mp3", "/readonly/out.mp3"}

\* bodies of a non-success POST answer, read with text()
ErrorTexts == {"", "{\"detail\":\"bad voice\"}"}

\* the audio a download answers with
AudioBytes == {"", "ID3"}

\* the Err(e) arm of the match on the POST's send()
CV_ConnectFailure(e) ==
    ConversionResult(FALSE, None,
        Some("Failed to connect to API server: " \o e \o
             ". Make sure the server is running with 'uv run kiwi server'"),
        None, None, None)

\* the two arms of response.text() on a non-success POST status
CV_ApiError(text_ok, error_text, status) ==
    IF text_ok
    THEN ConversionResult(FALSE, None, Some("API error: " \o error_text),
                          None, None, None)
    ELSE ConversionResult(FALSE, None,
                          Some("API returned status: " \o StatusText(status)),
                          None, None, None)

CV_ShouldDownload_mut(r) == IsSome(r.download_url)

\* if result.success && result.download_url.is_some()
CV_ShouldDownload(r) == r.success /\ IsSome(r.download_url)

CV_Failed_mut(r, message) == [r EXCEPT !.success = FALSE]

\* result.success = false; result.error = Some(message)
CV_Failed(r, message) == [r EXCEPT !.success = FALSE, !.error = Some(message)]

CV_Saved_mut(r, output_path) == r

\* result.output_path = Some(output_path)
CV_Saved(r, output_path) == [r EXCEPT !.output_path = Some(output_path)]

CV_ParseFailure_mut(e) ==
    Ok(ConversionResult(FALSE, None,
                        Some("Failed to parse TTS response: " \o e),
                        None, None, None))

\* Err(e) => Err(format!("Failed to parse TTS response: {}", e))
CV_ParseFailure(e) == Err("Failed to parse TTS response: " \o e)

CV_Call ==
    /\ pc \in {"idle", "done"}
    /\ \E output_path \in OutputPaths, verbose \in BOOLEAN :
          args' = [text |-> "hello", voice |-> "en-US-Chirp3-HD-Kore",
                   format |-> "mp3", output_path |-> output_path,
                   verbose |-> verbose]
    /\ handler' = "convert_text_to_speech"
    /\ pc' = "cv_post"
    /\ loc' = [step |-> 0]
    /\ log' = <<>>
    /\ result' = NoResult
    /\ UNCHANGED <<os, home>>

\* client.post(&url).json(&request_body).send().await and the match on it
CV_Post ==
    /\ pc = "cv_post"
    /\ \E o \in SendOutcomes, e \in NetErrors :
          LET url == API_BASE_URL \o "/synthesize"
          IN  /\ log' = Append(log, NetEv("POST", url, o.sent, o.status))
              /\ IF ~o.sent
                 THEN /\ result' = Ok(CV_ConnectFailure(e))
                      /\ pc' = "done"
                      /\ loc' = loc
                 ELSE /\ result' = result
                      /\ pc' = IF IsSuccess(o.status) THEN "cv_json" ELSE "cv_text"
                      /\ loc' = [status |-> o.status]
    /\ UNCHANGED <<os, home, handler, args>>

\* response.text().await on a non-success status
CV_Text ==
    /\ pc = "cv_text"
    /\ \E text_ok \in BOOLEAN, error_text \in ErrorTexts :
          /\ log' = Append(log, BodyEv("text", text_ok))
          /\ result' = Ok(CV_ApiError(text_ok, error_text, loc.status))
    /\ pc' = "done"
    /\ UNCHANGED <<os, home, handler, args, loc>>

\* response.json::<ConversionResult>().await and the test for a download
CV_Json ==
    /\ pc = "cv_json"
    /\ \/ \E r \in ServerResults :
             /\ log' = Append(log, BodyEv("json", TRUE))
             /\ IF CV_ShouldDownload(r)
                THEN /\ loc' = [result |-> r]
                     /\ pc' = "cv_get"
                     /\ result' = result
                ELSE /\ loc' = [result |-> r]
                     /\ pc' = "done"
                     /\ result' = Ok(r)
       \/ \E e \in ParseErrors :
             /\ log' = Append(log, BodyEv("json", FALSE))
             /\ result' = CV_ParseFailure(e)
             /\ pc' = "done"
             /\ loc' = loc
    /\ UNCHANGED <<os, home, handler, args>>

\* client.get(&full_download_url).send().await and the match on it
CV_Get ==
    /\ pc = "cv_get"
    /\ \E o \in SendOutcomes, e \in NetErrors :
          LET download_url == Unwrap(loc.result.download_url)
              full_download_url == API_BASE_URL \o download_url
          IN  /\ log' = Append(log, NetEv("GET", full_download_url, o.sent, o.status))
              /\ IF ~o.sent
                 THEN /\ result' = Ok(CV_Failed(loc.result,
                                        "Failed to download audio file: " \o e))
                      /\ pc' = "done"
                 ELSE IF IsSuccess(o.status)
                 THEN /\ result' = result
                      /\ pc' = "cv_bytes"
                 ELSE /\ result' = Ok(CV_Failed(loc.result,
                                        "Download failed with status: "
                                            \o StatusText(o.status)))
                      /\ pc' = "done"
    /\ UNCHANGED <<os, home, handler, args, loc>>

\* download_response.bytes().await, then std::fs::write(&output_path, bytes)
CV_Bytes ==
    /\ pc = "cv_bytes"
    /\ \/ \E e \in NetErrors :
             /\ log' = Append(log, BodyEv("bytes", FALSE))
             /\ result' = Ok(CV_Failed(loc.result,
                                "Failed to read audio data: " \o e))
       \/ \E bytes \in AudioBytes, e \in IoErrors :
             /\ log' = log \o <<BodyEv("bytes", TRUE),
                                WriteEv(args.output_path, bytes, FALSE)>>
             /\ result' = Ok(CV_Failed(loc.result,
                                "Failed to save audio file: " \o e))
       \/ \E bytes \in AudioBytes :
             /\ log' = log \o <<BodyEv("bytes", TRUE),
                                WriteEv(args.output_path, bytes, TRUE)>>
             /\ result' = Ok(CV_Saved(loc.result, args.output_path))
    /\ pc' = "done"
    /\ UNCHANGED <<os, home, handler, args, loc>>

(*********************** the process environment **************************)

\* exit codes a spawned process may end with
ExitCodes == {0, 1}

\* std::process::ExitStatus::success
ExitSuccess(code) == code = 0

SpawnErrors == {"No such file or directory (os error 2)"}

\* what output() can produce for an opener or file manager, whose stdout
\* no handler reads
SpawnOutcomes ==
    {[spawned |-> FALSE, exit |-> -1, stdout |-> ""]} \cup
    {[spawned |-> TRUE, exit |-> c, stdout |-> ""] : c \in ExitCodes}

\* characters a dialog prints: a path character and a white space
StdoutChars == {"p", "\n"}

RECURSIVE StringsUpTo(_)
StringsUpTo(n) ==
    IF n = 0 THEN {""}
    ELSE LET shorter == StringsUpTo(n - 1)
         IN  shorter \cup {s \o c : s \in shorter, c \in StdoutChars}

Stdouts == StringsUpTo(MaxStdoutLen)

\* what output() can produce for a Linux or Windows folder dialog
DialogOutcomes ==
    {[spawned |-> FALSE, exit |-> -1, stdout |-> ""]} \cup
    {[spawned |-> TRUE, exit |-> c, stdout |-> s] :
        c \in ExitCodes, s \in Stdouts}

\* what osascript prints
MacStdouts == {"", "Macintosh HD:Users:u:out:\n", "Data:audio:\n"}

MacDialogOutcomes ==
    {[spawned |-> FALSE, exit |-> -1, stdout |-> ""]} \cup
    {[spawned |-> TRUE, exit |-> c, stdout |-> s] :
        c \in ExitCodes, s \in MacStdouts}

(***************************** str helpers *********************************)

CharAt(s, i) == SubSeq(s, i, i)

\* char::is_whitespace, on the characters the model uses
IsWhitespace(c) == c \in {" ", "\n", "\t", "\r"}

RECURSIVE TrimStart(_)
TrimStart(s) ==
    IF Len(s) > 0 /\ IsWhitespace(CharAt(s, 1))
    THEN TrimStart(SubSeq(s, 2, Len(s)))
    ELSE s

RECURSIVE TrimEnd(_)
TrimEnd(s) ==
    IF Len(s) > 0 /\ IsWhitespace(CharAt(s, Len(s)))
    THEN TrimEnd(SubSeq(s, 1, Len(s) - 1))
    ELSE s

\* str::trim
Trim(s) == TrimEnd(TrimStart(s))

\* str::replace: every non-overlapping match, left to right
RECURSIVE Replace(_, _, _)
Replace(s, from, to) ==
    IF Len(s) < Len(from) THEN s
    ELSE IF SubSeq(s, 1, Len(from)) = from
    THEN to \o Replace(SubSeq(s, Len(from) + 1, Len(s)), from, to)
    ELSE CharAt(s, 1) \o Replace(SubSeq(s, 2, Len(s)), from, to)

(***************************** open_file_path ******************************)

\* paths the front end may pass
Paths == {"", "/", "/home/u", "/home/u/out.mp3", "out.mp3"}

\* the executable and arguments of the cfg block compiled in
OpenFileCommand(target_os, path) ==
    CASE target_os = "windows" -> [cmd |-> "cmd", argv |-> <<"/C", "start", "", path>>]
      [] target_os = "macos" -> [cmd |-> "open", argv |-> <<path>>]
      [] target_os = "linux" -> [cmd |-> "xdg-open", argv |-> <<path>>]

\* .output().map_err(|e| format!("Failed to open file: {}", e))?; Ok(())
OpenFileResult(o, e) ==
    IF ~o.spawned THEN Err("Failed to open file: " \o e) ELSE Ok(Unit)

OF_Call ==
    /\ pc \in {"idle", "done"}
    /\ \E path \in Paths : args' = [path |-> path]
    /\ handler' = "open_file_path"
    /\ pc' = "of_spawn"
    /\ loc' = [step |-> 0]
    /\ log' = <<>>
    /\ result' = NoResult
    /\ UNCHANGED <<os, home>>

OF_Spawn ==
    /\ pc = "of_spawn"
    /\ \E o \in SpawnOutcomes, e \in SpawnErrors :
          LET c == OpenFileCommand(os, args.path)
          IN  /\ log' = Append(log, SpawnEv(c.cmd, c.argv, o.spawned, o.exit, o.stdout))
              /\ result' = OpenFileResult(o, e)
    /\ pc' = "done"
    /\ UNCHANGED <<os, home, handler, args, loc>>

(**************************** open_folder_path *****************************)

\* what the file system may hold at a path: "" never exists, "/" is a
\* directory.  The kind is read once per invocation: the file system is
\* taken not to change between the handler's exists() and is_file() calls.
KindsOf(path) ==
    CASE path = "" -> {"missing"}
      [] path = "/" -> {"dir"}
      [] OTHER -> {"missing", "file", "dir"}

RECURSIVE LastSlash(_, _)
LastSlash(p, i) ==
    IF i = 0 THEN 0
    ELSE IF CharAt(p, i) = "/" THEN i ELSE LastSlash(p, i - 1)

\* std::path::Path::parent, for paths without trailing or doubled slashes
Parent(p) ==
    IF p = "" \/ p = "/" THEN None
    ELSE LET k == LastSlash(p, Len(p))
         IN  IF k = 0 THEN Some("")
             ELSE IF k = 1 THEN Some("/")
             ELSE Some(SubSeq(p, 1, k - 1))

\* let commands = ["nautilus", "dolphin", "thunar", "pcmanfm"];
file_managers == <<"nautilus", "dolphin", "thunar", "pcmanfm">>

\* the Windows and macOS cfg blocks of open_folder_path
OpenFolderCommand(target_os, is_file, path, folder_path) ==
    CASE target_os = "windows" ->
            IF is_file THEN [cmd |-> "explorer", argv |-> <<"/select,", path>>]
            ELSE [cmd |-> "explorer", argv |-> <<folder_path>>]
      [] target_os = "macos" ->
            IF is_file THEN [cmd |-> "open", argv |-> <<"-R", path>>]
            ELSE [cmd |-> "open", argv |-> <<folder_path>>]

OpenFolderResult(o, e) ==
    IF ~o.spawned THEN Err("Failed to open folder: " \o e) ELSE Ok(Unit)

OD_NeedsXdgOpen_mut(success) == TRUE

\* if !success
OD_NeedsXdgOpen(success) == ~success

OD_StopsAt_mut(o) == o.spawned /\ ExitSuccess(o.exit)

\* Ok(_) => { success = true; break; }   Err(_) => continue
OD_StopsAt(o) == o.spawned

OD_Call ==
    /\ pc \in {"idle", "done"}
    /\ \E path \in Paths : args' = [path |-> path]
    /\ handler' = "open_folder_path"
    /\ pc' = "od_check"
    /\ loc' = [step |-> 0]
    /\ log' = <<>>
    /\ result' = NoResult
    /\ UNCHANGED <<os, home>>

\* the exists() test and the computation of folder_path
OD_Check ==
    /\ pc = "od_check"
    /\ \E kind \in KindsOf(args.path) :
          /\ log' = Append(log, StatEv(args.path, kind))
          /\ IF kind = "missing"
             THEN /\ result' = Err("File does not exist: " \o args.path)
                  /\ pc' = "done"
                  /\ loc' = loc
             ELSE IF kind = "file" /\ ~IsSome(Parent(args.path))
             THEN /\ result' = Err("Cannot determine parent directory")
                  /\ pc' = "done"
                  /\ loc' = loc
             ELSE /\ result' = result
                  /\ pc' = IF os = "linux" THEN "od_linux" ELSE "od_spawn"
                  /\ loc' = [is_file |-> kind = "file",
                             folder_path |-> IF kind = "file"
                                             THEN Unwrap(Parent(args.path))
                                             ELSE args.path,
                             i |-> 1, success |-> FALSE]
    /\ UNCHANGED <<os, home, handler, args>>

\* the Windows and macOS blocks: one spawn, then Ok(())
OD_Spawn ==
    /\ pc = "od_spawn"
    /\ \E o \in SpawnOutcomes, e \in SpawnErrors :
          LET c == OpenFolderCommand(os, loc.is_file, args.path, loc.folder_path)
          IN  /\ log' = Append(log, SpawnEv(c.cmd, c.argv, o.spawned, o.exit, o.stdout))
              /\ result' = OpenFolderResult(o, e)
    /\ pc' = "done"
    /\ UNCHANGED <<os, home, handler, args, loc>>

\* one iteration of `for cmd in &commands`
OD_LinuxTry ==
    /\ pc = "od_linux"
    /\ loc.i <= Len(file_managers)
    /\ IF loc.is_file
       THEN \E o \in SpawnOutcomes :
               /\ log' = Append(log, SpawnEv(file_managers[loc.i],
                                    <<"--select", args.path>>,
                                    o.spawned, o.exit, o.stdout))
               /\ IF OD_StopsAt(o)
                  THEN /\ loc' = [loc EXCEPT !.success = TRUE]
                       /\ pc' = "od_xdg"
                  ELSE /\ loc' = [loc EXCEPT !.i = @ + 1]
                       /\ pc' = IF loc.i = Len(file_managers)
                                THEN "od_xdg" ELSE "od_linux"
       ELSE /\ log' = log
            /\ loc' = [loc EXCEPT !.i = @ + 1]
            /\ pc' = IF loc.i = Len(file_managers) THEN "od_xdg" ELSE "od_linux"
    /\ UNCHANGED <<os, home, handler, args, result>>

\* the xdg-open fallback after the loop, then Ok(())
OD_Xdg ==
    /\ pc = "od_xdg"
    /\ IF OD_NeedsXdgOpen(loc.success)
       THEN \E o \in SpawnOutcomes, e \in SpawnErrors :
               /\ log' = Append(log, SpawnEv("xdg-open", <<loc.folder_path>>,
                                    o.spawned, o.exit, o.stdout))
               /\ result' = OpenFolderResult(o, e)
       ELSE /\ log' = log
            /\ result' = Ok(Unit)
    /\ pc' = "done"
    /\ UNCHANGED <<os, home, handler, args, loc>>

(*************************** select_output_folder **************************)

\* let commands = [("zenity", ...), ("kdialog", ...), ("yad", ...)];
dialogs ==
    <<[cmd |-> "zenity",
       argv |-> <<"--file-selection", "--directory",
                  "--title=Select output folder for audio files">>],
      [cmd |-> "kdialog",
       argv |-> <<"--getexistingdirectory", ".", "--title",
                  "Select output folder for audio files">>],
      [cmd |-> "yad",
       argv |-> <<"--file-selection", "--directory",
                  "--title=Select output folder for audio files">>]>>

Sel_Accepts_mut(o) == o.spawned /\ Trim(o.stdout) # ""

\* Ok(output) if output.status.success() => { ... if !path.is_empty() ... }
Sel_Accepts(o) == o.spawned /\ ExitSuccess(o.exit) /\ Trim(o.stdout) # ""

\* if let Ok(home) = std::env::var("HOME") { "{home}/Downloads" } else { "/tmp" }
Sel_FallbackPath(h) == IF IsSome(h) THEN Unwrap(h) \o "/Downloads" ELSE "/tmp"

\* the Windows block, after the spawn succeeded
Sel_WindowsResult(o) ==
    LET path == Trim(o.stdout)
    IN  IF path = "" THEN Ok(None) ELSE Ok(Some(path))

\* the macOS block, after the spawn succeeded
Sel_MacResult(o) ==
    IF ExitSuccess(o.exit)
    THEN LET path == Trim(o.stdout)
             unix_path == Replace(Replace(path, ":", "/"), "Macintosh HD", "")
         IN  Ok(Some(unix_path))
    ELSE Ok(None)

Sel_Call ==
    /\ pc \in {"idle", "done"}
    /\ args' = [none |-> TRUE]
    /\ handler' = "select_output_folder"
    /\ pc' = CASE os = "linux" -> "sel_linux"
               [] os = "windows" -> "sel_windows"
               [] os = "macos" -> "sel_macos"
    /\ loc' = [i |-> 1]
    /\ log' = <<>>
    /\ result' = NoResult
    /\ UNCHANGED <<os, home>>

\* powershell folder picker
Sel_Windows ==
    /\ pc = "sel_windows"
    /\ \E o \in DialogOutcomes, e \in SpawnErrors :
          /\ log' = Append(log, SpawnEv("powershell", <<"-Command", "FolderBrowserDialog">>,
                               o.spawned, o.exit, o.stdout))
          /\ result' = IF ~o.spawned
                       THEN Err("Failed to open folder dialog: " \o e)
                       ELSE Sel_WindowsResult(o)
    /\ pc' = "done"
    /\ UNCHANGED <<os, home, handler, args, loc>>

\* osascript folder picker
Sel_MacOS ==
    /\ pc = "sel_macos"
    /\ \E o \in MacDialogOutcomes, e \in SpawnErrors :
          /\ log' = Append(log, SpawnEv("osascript", <<"-e", "choose folder">>,
                               o.spawned, o.exit, o.stdout))
          /\ result' = IF ~o.spawned
                       THEN Err("Failed to open folder dialog: " \o e)
                       ELSE Sel_MacResult(o)
    /\ pc' = "done"
    /\ UNCHANGED <<os, home, handler, args, loc>>

\* one iteration of `for (cmd, args) in &commands`
Sel_LinuxTry ==
    /\ pc = "sel_linux"
    /\ loc.i <= Len(dialogs)
    /\ \E o \in DialogOutcomes :
          /\ log' = Append(log, SpawnEv(dialogs[loc.i].cmd, dialogs[loc.i].argv,
                               o.spawned, o.exit, o.stdout))
          /\ IF Sel_Accepts(o)
             THEN /\ result' = Ok(Some(Trim(o.stdout)))
                  /\ pc' = "done"
                  /\ loc' = loc
             ELSE /\ result' = result
                  /\ pc' = IF loc.i = Len(dialogs) THEN "sel_fallback" ELSE "sel_linux"
                  /\ loc' = [loc EXCEPT !.i = @ + 1]
    /\ UNCHANGED <<os, home, handler, args>>

\* the fallback after the loop
Sel_Fallback ==
    /\ pc = "sel_fallback"
    /\ result' = Ok(Some(Sel_FallbackPath(home)))
    /\ pc' = "done"
    /\ UNCHANGED <<os, home, handler, args, loc, log>>

(************************** specification **********************************)

Platforms == {"linux", "macos", "windows"}

HomeValues == {None, Some("/home/u")}

Init ==
    /\ os \in Platforms
    /\ home \in HomeValues
    /\ pc = "idle"
    /\ handler = "none"
    /\ args = [none |-> TRUE]
    /\ loc = [step |-> 0]
    /\ log = <<>>
    /\ result = NoResult

Next ==
    \/ GV_Call \/ GV_Send \/ GV_Json
    \/ CV_Call \/ CV_Post \/ CV_Text \/ CV_Json \/ CV_Get \/ CV_Bytes
    \/ OF_Call \/ OF_Spawn
    \/ OD_Call \/ OD_Check \/ OD_Spawn \/ OD_LinuxTry \/ OD_Xdg
    \/ Sel_Call \/ Sel_Windows \/ Sel_MacOS \/ Sel_LinuxTry \/ Sel_Fallback

Spec == Init /\ [][Next]_vars

(************************* reading the trace *******************************)

Done == pc = "done"

IsNet(e) == e.kind = "net"

IsSpawn(e) == e.kind = "spawn"

IsWrite(e) == e.kind = "write"

\* the HTTP requests issued so far
Requests == SelectSeq(log, IsNet)

\* the spawn attempts made so far, and those that started a process
Attempts == SelectSeq(log, IsSpawn)

IsStarted(e) == e.kind = "spawn" /\ e.ok

Started == SelectSeq(log, IsStarted)

Writes == SelectSeq(log, IsWrite)

NetHandlers == {"get_available_voices", "convert_text_to_speech"}

(******************************** C1 ***************************************)

\* C1 as stated: whatever the handler, an invocation issues at most two
\* network requests and spawns nothing, or issues no request and starts at
\* most one OS process.
C1_AtMostOneSpawn ==
    \/ Len(Requests) <= 2 /\ Len(Attempts) = 0
    \/ Len(Requests) = 0 /\ Len(Started) <= 1

\* C1, amended: the network handlers issue at most two requests one after
\* the other (get_available_voices one) and spawn nothing; open_file_path
\* and open_folder_path issue no request and start at most one process
\* (open_folder_path on Linux after up to four failed attempts);
\* select_output_folder issues no request and starts one process, except on
\* Linux where it may start each of its three dialogs in turn.
C1_RequestsAndSpawnsBounded ==
    /\ handler \in NetHandlers =>
          /\ Len(Attempts) = 0
          /\ Len(Requests) <= 2
          /\ handler = "get_available_voices" => Len(Requests) <= 1
          /\ Len(Requests) = 2 =>
                /\ log[1] = Requests[1]
                /\ Requests[1].ok /\ IsSuccess(Requests[1].code)
                /\ log[2].kind = "body" /\ log[2].ok
                /\ log[3] = Requests[2]
    /\ handler = "open_file_path" =>
          Len(Requests) = 0 /\ Len(Attempts) <= 1
    /\ handler = "open_folder_path" =>
          /\ Len(Requests) = 0
          /\ Len(Started) <= 1
          /\ Len(Attempts) <= Len(file_managers) + 1
          /\ os # "linux" => Len(Attempts) <= 1
    /\ handler = "select_output_folder" =>
          /\ Len(Requests) = 0
          /\ Len(Attempts) <= Len(dialogs)
          /\ os # "linux" => Len(Attempts) <= 1

\* select_output_folder on Linux has returned after starting three dialogs
C1_Witness ==
    /\ Done /\ handler = "select_output_folder" /\ os = "linux"
    /\ Len(Started) = Len(dialogs)

(***************************** C2 and C5 ***********************************)

GvDone == Done /\ handler = "get_available_voices"

\* the GET /voices request could not be sent
GvSendFailed == Len(log) >= 1 /\ ~log[1].ok

\* the GET /voices request was answered with a non-success status
GvBadStatus == Len(log) >= 1 /\ log[1].ok /\ ~IsSuccess(log[1].code)

\* the twelve names, in the order the claims give them
HardcodedNames ==
    <<"Charon", "Kore", "Zephyr", "Achernar", "Pulcherrima", "Leda",
      "Aoede", "Callirrhoe", "Despina", "Enceladus", "Puck", "Umbriel">>

\* C2: when the GET /voices/{language_code} request fails to send, or is
\* answered with a non-success status, get_available_voices returns Ok (never
\* Err) with the fallback list of the requested language code: one voice per
\* hardcoded name, named and tagged for that language code.
C2_FallbackWhenUnreachable ==
    (GvDone /\ (GvSendFailed \/ GvBadStatus)) =>
        /\ result.tag = "Ok"
        /\ Len(result.val) = Len(HardcodedNames)
        /\ \A i \in 1..Len(HardcodedNames) :
              /\ result.val[i].language_code = args.language_code
              /\ result.val[i].name =
                    args.language_code \o "-Chirp3-HD-" \o HardcodedNames[i]

\* the API was unreachable and the handler has returned
C2_Witness == GvDone /\ GvSendFailed /\ result.tag = "Ok"

\* the voices C5 names as FEMALE
ClaimedFemale ==
    {"Charon", "Kore", "Leda", "Aoede", "Callirrhoe", "Pulcherrima", "Despina"}

\* the voice C5 describes for language code L and name V
ClaimedVoice(L, V) ==
    [name |-> L \o "-Chirp3-HD-" \o V,
     language_code |-> L,
     display_name |-> <<V \o " (HD)">>,
     ssml_gender |-> IF V \in ClaimedFemale THEN "FEMALE" ELSE "MALE"]

\* C5: in both failure branches (send error, non-success status) the list
\* returned for language code L is exactly the twelve voices in the fixed
\* order, each with name L-Chirp3-HD-V, language_code L, display_name
\* "V (HD)" and gender FEMALE for the seven listed names and MALE for the
\* other five.
C5_FallbackTable ==
    (GvDone /\ (GvSendFailed \/ GvBadStatus)) =>
        /\ result.tag = "Ok"
        /\ DOMAIN result.val = 1..12
        /\ \A i \in 1..12 :
              result.val[i] = ClaimedVoice(args.language_code, HardcodedNames[i])
        /\ Cardinality({i \in 1..12 : result.val[i].ssml_gender = "FEMALE"}) = 7
        /\ Cardinality({i \in 1..12 : result.val[i].ssml_gender = "MALE"}) = 5

\* the server answered with a non-success status and the handler returned
C5_Witness ==
    GvDone /\ GvBadStatus /\ args.language_code = "de-DE" /\ Len(result.val) = 12

(*************************** C3, C6, C7, C8 ********************************)

CvRunning == handler = "convert_text_to_speech"

CvDone == Done /\ CvRunning

\* the POST was answered with a success status
PostSucceeded ==
    Len(log) >= 1 /\ log[1].ok /\ IsSuccess(log[1].code)

\* ... and its body parsed as a ConversionResult, kept in loc.result
BodyParsed ==
    PostSucceeded /\ Len(log) >= 2 /\ log[2].cmd = "json" /\ log[2].ok

\* ... or did not parse
BodyUnparsable ==
    PostSucceeded /\ Len(log) >= 2 /\ log[2].cmd = "json" /\ ~log[2].ok

\* this invocation wrote the downloaded bytes to the requested path
FileWritten ==
    \E i \in 1..Len(log) :
        log[i].kind = "write" /\ log[i].ok /\ log[i].arg = <<args.output_path>>

\* C3: the steps of convert_text_to_speech happen only in the order POST
\* /synthesize, GET of the download URL, write to output_path.  The GET is
\* issued only after the POST returned a success status whose parsed body
\* has success = true and a download_url; the write happens only after that
\* GET returned a success status and its bytes were read; a body with
\* success = false or no download_url leads to no GET and no write; and
\* after a successful write the returned output_path is the requested one.
C3_PostGetWriteOrder ==
    CvRunning =>
        /\ Len(log) >= 1 =>
              /\ log[1].kind = "net" /\ log[1].cmd = "POST"
              /\ log[1].arg = <<"http://127.0.0.1:8000/synthesize">>
        /\ \A i \in 1..Len(log) :
              (log[i].kind = "net" /\ log[i].cmd = "GET") =>
                 /\ i = 3
                 /\ BodyParsed
                 /\ loc.result.success
                 /\ loc.result.download_url # <<>>
                 /\ log[i].arg = <<"http://127.0.0.1:8000" \o loc.result.download_url[1]>>
        /\ \A i \in 1..Len(log) :
              log[i].kind = "write" =>
                 /\ i = 5
                 /\ log[3].kind = "net" /\ log[3].cmd = "GET"
                 /\ log[3].ok /\ IsSuccess(log[3].code)
                 /\ log[4].kind = "body" /\ log[4].cmd = "bytes" /\ log[4].ok
                 /\ log[i].arg = <<args.output_path>>
        /\ (Done /\ BodyParsed
              /\ (~loc.result.success \/ loc.result.download_url = <<>>)) =>
                 /\ Len(Requests) = 1
                 /\ Len(Writes) = 0
        /\ (Done /\ FileWritten) =>
              /\ result.tag = "Ok"
              /\ result.val.output_path = <<args.output_path>>

\* the audio was downloaded and saved
C3_Witness == CvDone /\ FileWritten /\ Len(log) = 5

\* something went wrong on the way: a request could not be sent or was
\* answered with a non-success status, a body could not be read, or the
\* file could not be written
SomeStepFailed ==
    \E i \in 1..Len(log) :
        \/ ~log[i].ok
        \/ log[i].kind = "net" /\ ~IsSuccess(log[i].code)

\* C6: convert_text_to_speech returns Err exactly when the POST answer has
\* a success status and a body that does not parse; every other failure
\* is returned as Ok(result) with success = false; and after a connection
\* failure or a non-success POST status the result has no output_path,
\* file_size, processing_time or download_url.
C6_ErrOnlyOnUnparsableBody ==
    CvDone =>
        /\ result.tag \in {"Ok", "Err"}
        /\ result.tag = "Err" <=> BodyUnparsable
        /\ (SomeStepFailed /\ ~BodyUnparsable) =>
              result.tag = "Ok" /\ ~result.val.success
        /\ ~PostSucceeded =>
              /\ result.tag = "Ok"
              /\ result.val.output_path = <<>>
              /\ result.val.file_size = <<>>
              /\ result.val.processing_time = <<>>
              /\ result.val.download_url = <<>>

\* the body of a success-status answer did not parse: the handler returned Err
C6_Witness == CvDone /\ BodyUnparsable /\ result.tag = "Err"

\* the parsed body was returned as it came: no download was attempted
ReturnedUnchanged ==
    BodyParsed /\ Len(log) = 2 /\ result.tag = "Ok" /\ result.val = loc.result

\* C7 as stated: every Ok result with success = false carries an error
\* message, the server's own body returned unchanged included.
C7_FailureAlwaysHasError ==
    (CvDone /\ result.tag = "Ok" /\ ~result.val.success) =>
        result.val.error # <<>>

\* C7, amended: every Ok result with success = false that the handler built
\* or changed itself (connection failure, non-success POST status, failed
\* download, unreadable bytes, failed write) carries an error message; a
\* server body with success = false is returned unchanged, with the error
\* field the server sent, which may be absent.
C7_HandlerFailuresHaveError ==
    (CvDone /\ result.tag = "Ok" /\ ~result.val.success) =>
        IF ReturnedUnchanged
        THEN result.val.error = loc.result.error
        ELSE /\ result.val.error # <<>>
             /\ SomeStepFailed

\* a download failed after the server sent a body without an error field
C7_Witness ==
    /\ CvDone /\ result.tag = "Ok" /\ ~result.val.success
    /\ Len(log) >= 3 /\ BodyParsed /\ loc.result.error = <<>>
    /\ result.val.error # <<>>

\* C8 as stated: output_path is present only if this invocation wrote the
\* audio to the requested path, and then equals it.
C8_OutputPathOnlyIfWritten ==
    (CvDone /\ result.tag = "Ok" /\ result.val.output_path # <<>>) =>
        FileWritten /\ result.val.output_path = <<args.output_path>>

\* C8, amended: the returned output_path is the requested path when this
\* invocation wrote the audio there; otherwise it is the output_path of the
\* server's parsed body, present or absent, and absent when no body was
\* parsed (connection failure, non-success POST status).
C8_OutputPathWrittenOrServers ==
    (CvDone /\ result.tag = "Ok") =>
        IF FileWritten THEN result.val.output_path = <<args.output_path>>
        ELSE IF BodyParsed THEN result.val.output_path = loc.result.output_path
        ELSE result.val.output_path = <<>>

\* the audio was saved although the server's body named another path
C8_Witness ==
    /\ CvDone /\ FileWritten /\ result.tag = "Ok"
    /\ loc.result.output_path = <<"/srv/output/speech.mp3">>
    /\ result.val.output_path = <<args.output_path>>

(******************************** C4 ***************************************)

\* the last process the invocation started ended with a failure status
LastProcessFailed ==
    /\ Len(Attempts) >= 1
    /\ Attempts[Len(Attempts)].ok
    /\ Attempts[Len(Attempts)].code # 0

\* C4: a handler that spawns an executable returns its exit status: when
\* the process it started exits with a failure status, open_file_path and
\* open_folder_path do not return the Ok(()) they return after a successful
\* exit, and select_output_folder does not return what that process printed
\* as the chosen folder.
C4_ExitStatusReturned ==
    (Done /\ LastProcessFailed) =>
        /\ handler \in {"open_file_path", "open_folder_path"} =>
              result.tag # "Ok"
        /\ handler = "select_output_folder" =>
              ~(/\ result.tag = "Ok"
                /\ result.val # <<>>
                /\ Trim(Attempts[Len(Attempts)].data) # ""
                /\ result.val = <<Trim(Attempts[Len(Attempts)].data)>>)

(******************************** C9 ***************************************)

OdLinux == handler = "open_folder_path" /\ os = "linux"

\* what the file system held at the path (known once the handler looked)
PathKind == log[1].data

\* the file managers, in the order C9 gives them
ClaimedManagers == <<"nautilus", "dolphin", "thunar", "pcmanfm">>

\* C9: open_folder_path on Linux.  A missing path gives Err("File does not
\* exist: ...") and no spawn.  For a file it tries nautilus, dolphin, thunar,
\* pcmanfm in that order with "--select <path>", stops at the first that can
\* be spawned, and runs xdg-open on the parent directory only if none of the
\* four could be spawned.  For a directory it spawns no file manager and
\* runs xdg-open on the path itself.  It returns Err only for a missing
\* path, an undeterminable parent or a failed xdg-open spawn.
C9_LinuxOpenFolder ==
    (OdLinux /\ Len(log) >= 1) =>
        LET A == Attempts
            n == Len(A)
        IN  /\ PathKind = "missing" =>
                 /\ n = 0
                 /\ Done
                 /\ result.tag = "Err"
                 /\ result.val = "File does not exist: " \o args.path
            /\ \A i \in 1..n :
                 IF A[i].cmd = "xdg-open"
                 THEN /\ i = n
                      /\ \A j \in 1..(i - 1) : ~A[j].ok
                      /\ PathKind = "file" =>
                            i = 5 /\ A[i].arg = Parent(args.path)
                      /\ PathKind = "dir" =>
                            i = 1 /\ A[i].arg = <<args.path>>
                 ELSE /\ PathKind = "file"
                      /\ i <= 4
                      /\ A[i].cmd = ClaimedManagers[i]
                      /\ A[i].arg = <<"--select", args.path>>
                      /\ \A j \in 1..(i - 1) : ~A[j].ok
            /\ (Done /\ PathKind = "file" /\ Parent(args.path) # <<>>) =>
                 /\ n >= 1
                 /\ A[n].ok \/ n = 5
                 /\ result.tag = "Err" <=> (A[n].cmd = "xdg-open" /\ ~A[n].ok)
            /\ (Done /\ PathKind = "dir") =>
                 /\ n = 1
                 /\ A[1].cmd = "xdg-open"
                 /\ result.tag = "Err" <=> ~A[1].ok
            /\ (Done /\ result.tag = "Err") =>
                 \/ PathKind = "missing"
                 \/ PathKind = "file" /\ Parent(args.path) = <<>>
                 \/ n >= 1 /\ A[n].cmd = "xdg-open" /\ ~A[n].ok

\* no file manager could be spawned for a file: xdg-open opened its folder
C9_Witness ==
    /\ OdLinux /\ Done /\ Len(log) >= 1 /\ PathKind = "file"
    /\ Len(Attempts) = 5
    /\ Attempts[5].cmd = "xdg-open" /\ Attempts[5].ok
    /\ Attempts[5].arg = <<"/home/u">>
    /\ result.tag = "Ok"

(******************************** C10 **************************************)

SelLinux == handler = "select_output_folder" /\ os = "linux"

ClaimedDialogs == <<"zenity", "kdialog", "yad">>

IsBlank(s) == \A k \in 1..Len(s) : SubSeq(s, k, k) \in {" ", "\n", "\t", "\r"}

\* t is s without its leading and trailing white space
IsTrimOf(t, s) ==
    \E a \in 0..Len(s) :
        /\ a + Len(t) <= Len(s)
        /\ t = SubSeq(s, a + 1, a + Len(t))
        /\ IsBlank(SubSeq(s, 1, a))
        /\ IsBlank(SubSeq(s, a + Len(t) + 1, Len(s)))
        /\ t # "" => /\ ~IsBlank(SubSeq(t, 1, 1))
                     /\ ~IsBlank(SubSeq(t, Len(t), Len(t)))

\* the dialog exited successfully and printed more than white space
Chose(e) == e.ok /\ e.code = 0 /\ ~IsBlank(e.data)

====
